---------------------------- MODULE Spec2Model ----------------------------
(***************************************************************************)
(* Model of concore.py: the synchronized data-exchange protocol           *)
(* (read / write / initval over file ports and ZeroMQ ports).            *)
(*                                                                         *)
(* Python values are records tagged by their type; text (str objects and   *)
(* file contents) is a sequence of one-character strings, so that str()    *)
(* and ast.literal_eval are modelled by what they do to characters.        *)
(***************************************************************************)
EXTENDS Integers, Sequences, FiniteSets, TLC

(***************************************************************************)
(* Python values                                                           *)
(***************************************************************************)
\* int n
PyInt(n) == [k |-> "int", n |-> n]
\* float, held in tenths: PyFloat(15) is 1.5
PyFloat(m) == [k |-> "float", n |-> m]
\* numpy scalar np.float64, held in tenths
NpFloat(m) == [k |-> "np", n |-> m]
\* str with the characters t
PyText(t) == [k |-> "str", t |-> t]
\* list with the items xs
PyList(xs) == [k |-> "list", items |-> xs]
\* tuple with the items xs
PyTuple(xs) == [k |-> "tuple", items |-> xs]
\* dict with the (key, value) pairs kvs, in insertion order
PyDict(kvs) == [k |-> "dict", items |-> kvs]
\* set with the elements xs
PySet(xs) == [k |-> "set", items |-> xs]
PyNone == [k |-> "none"]
\* True / False
PyBool(b) == [k |-> "bool", b |-> b]

IsStr(v) == v.k = "str"
IsList(v) == v.k = "list"
\* isinstance(v, (int, float)); np.float64 subclasses float
IsNumber(v) == v.k \in {"int", "float", "np"}
\* the numeric value in tenths
Tenths(v) == IF v.k = "int" THEN 10 * v.n ELSE v.n

(***************************************************************************)
(* str() and repr()                                                        *)
(***************************************************************************)
DigitChar(d) ==
    CASE d = 0 -> "0" [] d = 1 -> "1" [] d = 2 -> "2" [] d = 3 -> "3"
      [] d = 4 -> "4" [] d = 5 -> "5" [] d = 6 -> "6" [] d = 7 -> "7"
      [] d = 8 -> "8" [] d = 9 -> "9"

RECURSIVE NatText(_)
NatText(n) ==
    IF n < 10 THEN <<DigitChar(n)>>
    ELSE NatText(n \div 10) \o <<DigitChar(n % 10)>>

IntText(n) == IF n < 0 THEN <<"-">> \o NatText(-n) ELSE NatText(n)

FloatText(m) ==
    LET a == IF m < 0 THEN -m ELSE m
    IN  (IF m < 0 THEN <<"-">> ELSE <<>>)
        \o NatText(a \div 10) \o <<".", DigitChar(a % 10)>>

RECURSIVE PyRepr(_)
RECURSIVE JoinRepr(_)
JoinRepr(xs) ==
    IF xs = <<>> THEN <<>>
    ELSE IF Len(xs) = 1 THEN PyRepr(xs[1])
    ELSE PyRepr(xs[1]) \o <<",", " ">> \o JoinRepr(Tail(xs))

PyRepr(v) ==
    CASE v.k = "int" -> IntText(v.n)
      [] v.k = "float" -> FloatText(v.n)
      [] v.k = "np" ->
           <<"n", "p", ".", "f", "l", "o", "a", "t", "6", "4", "(">>
           \o FloatText(v.n) \o <<")">>
      [] v.k = "str" -> <<"'">> \o v.t \o <<"'">>
      [] v.k = "list" -> <<"[">> \o JoinRepr(v.items) \o <<"]">>
      [] v.k = "tuple" ->
           <<"(">> \o JoinRepr(v.items)
           \o (IF Len(v.items) = 1 THEN <<",">> ELSE <<>>) \o <<")">>
      [] v.k = "none" -> <<"N", "o", "n", "e">>

\* str() taken for repr(): text comes back quoted
PyStr_as_repr(v) == PyRepr(v)

PyStr(v) == IF IsStr(v) THEN v.t ELSE PyRepr(v)

(***************************************************************************)
(* ast.literal_eval                                                        *)
(***************************************************************************)
IsDigit(c) == c \in {"0", "1", "2", "3", "4", "5", "6", "7", "8", "9"}
DigitVal(c) == CHOOSE d \in 0..9 : DigitChar(d) = c

ParseFail == [ok |-> FALSE]
ParseOk(v, rest) == [ok |-> TRUE, v |-> v, rest |-> rest]

RECURSIVE SkipWs(_)
SkipWs(t) == IF t # <<>> /\ Head(t) = " " THEN SkipWs(Tail(t)) ELSE t

\* the digits at the front of t, as [n, len]
RECURSIVE ScanNat(_, _, _)
ScanNat(t, acc, len) ==
    IF t # <<>> /\ IsDigit(Head(t))
    THEN ScanNat(Tail(t), 10 * acc + DigitVal(Head(t)), len + 1)
    ELSE [n |-> acc, len |-> len, rest |-> t]

\* an unsigned number: digits, or digits "." digit
ParseNumber(t, sign) ==
    LET a == ScanNat(t, 0, 0)
    IN  IF a.len = 0 \/ (a.len > 1 /\ Head(t) = "0") THEN ParseFail
        ELSE IF a.rest # <<>> /\ Head(a.rest) = "."
        THEN LET b == ScanNat(Tail(a.rest), 0, 0)
             IN  IF b.len = 1
                 THEN ParseOk(PyFloat(sign * (10 * a.n + b.n)), b.rest)
                 ELSE ParseFail
        ELSE ParseOk(PyInt(sign * a.n), a.rest)

\* the characters up to the closing quote q
RECURSIVE ScanQuoted(_, _, _)
ScanQuoted(t, q, acc) ==
    IF t = <<>> THEN ParseFail
    ELSE IF Head(t) = q THEN ParseOk(PyText(acc), Tail(t))
    ELSE ScanQuoted(Tail(t), q, Append(acc, Head(t)))

StartsWith(t, p) == Len(t) >= Len(p) /\ SubSeq(t, 1, Len(p)) = p

Keyword(d) == IF d = "json" THEN <<"n", "u", "l", "l">> ELSE <<"N", "o", "n", "e">>
Quotes(d) == IF d = "json" THEN {"\""} ELSE {"'", "\""}

\* one value of the literal grammar at the front of t; d is the dialect,
\* "py" for Python literals and "json" for JSON documents
RECURSIVE ParseValue(_, _)
RECURSIVE ParseItems(_, _, _)
RECURSIVE ParseTuple(_, _, _)
RECURSIVE ParseBrace(_, _, _)
ParseValue(t, d) ==
    LET u == SkipWs(t)
    IN  IF u = <<>> THEN ParseFail
        ELSE IF Head(u) = "[" THEN ParseItems(Tail(u), <<>>, d)
        ELSE IF Head(u) = "{" /\ d = "py" THEN ParseBrace(Tail(u), <<>>, "any")
        ELSE IF Head(u) = "(" /\ d = "py" THEN ParseTuple(Tail(u), <<>>, FALSE)
        ELSE IF Head(u) \in Quotes(d) THEN ScanQuoted(Tail(u), Head(u), <<>>)
        ELSE IF IsDigit(Head(u)) THEN ParseNumber(u, 1)
        ELSE IF Head(u) = "-" THEN ParseNumber(Tail(u), -1)
        ELSE IF StartsWith(u, Keyword(d))
        THEN ParseOk(PyNone, SubSeq(u, 5, Len(u)))
        ELSE ParseFail

ParseItems(t, acc, d) ==
    LET u == SkipWs(t)
    IN  IF u = <<>> THEN ParseFail
        ELSE IF Head(u) = "]"
        THEN IF d = "json" /\ acc # <<>> THEN ParseFail
             ELSE ParseOk(PyList(acc), Tail(u))
        ELSE LET r == ParseValue(u, d)
             IN  IF ~r.ok THEN ParseFail
                 ELSE LET w == SkipWs(r.rest)
                      IN  IF w = <<>> THEN ParseFail
                          ELSE IF Head(w) = ","
                          THEN ParseItems(Tail(w), Append(acc, r.v), d)
                          ELSE IF Head(w) = "]"
                          THEN ParseOk(PyList(Append(acc, r.v)), Tail(w))
                          ELSE ParseFail

\* the items of a parenthesized form of Python, after the "(": a tuple when
\* a comma was seen or there is no item, else the one value in parentheses
ParseTuple(t, acc, comma) ==
    LET u == SkipWs(t)
    IN  IF u = <<>> THEN ParseFail
        ELSE IF Head(u) = ")"
        THEN IF acc = <<>> \/ comma THEN ParseOk(PyTuple(acc), Tail(u))
             ELSE ParseFail
        ELSE LET r == ParseValue(u, "py")
             IN  IF ~r.ok THEN ParseFail
                 ELSE LET w == SkipWs(r.rest)
                      IN  IF w = <<>> THEN ParseFail
                          ELSE IF Head(w) = ","
                          THEN ParseTuple(Tail(w), Append(acc, r.v), TRUE)
                          ELSE IF Head(w) = ")"
                          THEN IF comma THEN ParseOk(PyTuple(Append(acc, r.v)), Tail(w))
                               ELSE ParseOk(r.v, Tail(w))
                          ELSE ParseFail

\* d[key] = val on the pairs of a dict: the value of a key already there
\* is replaced where it stands
DictSet(kvs, key, val) ==
    IF \E i \in 1..Len(kvs) : kvs[i][1] = key
    THEN [i \in 1..Len(kvs) |-> IF kvs[i][1] = key THEN <<key, val>> ELSE kvs[i]]
    ELSE Append(kvs, <<key, val>>)

\* the items of a braced form of Python, after the "{": key: value pairs
\* make a dict, plain items a set, and "{}" is the empty dict; kind is
\* "any" until the first item shows which of the two it is
ParseBrace(t, acc, kind) ==
    LET u == SkipWs(t)
    IN  IF u = <<>> THEN ParseFail
        ELSE IF Head(u) = "}"
        THEN IF kind = "set" THEN ParseOk(PySet(acc), Tail(u))
             ELSE ParseOk(PyDict(acc), Tail(u))
        ELSE LET r == ParseValue(u, "py")
             IN  IF ~r.ok THEN ParseFail
                 ELSE LET w == SkipWs(r.rest)
                      IN  IF w = <<>> THEN ParseFail
                          ELSE IF Head(w) = ":" /\ kind # "set"
                          THEN LET r2 == ParseValue(Tail(w), "py")
                               IN  IF ~r2.ok THEN ParseFail
                                   ELSE LET x == SkipWs(r2.rest)
                                            kvs == DictSet(acc, r.v, r2.v)
                                        IN  IF x = <<>> THEN ParseFail
                                            ELSE IF Head(x) = ","
                                            THEN ParseBrace(Tail(x), kvs, "dict")
                                            ELSE IF Head(x) = "}"
                                            THEN ParseOk(PyDict(kvs), Tail(x))
                                            ELSE ParseFail
                          ELSE IF Head(w) = "," /\ kind # "dict"
                          THEN ParseBrace(Tail(w), Append(acc, r.v), "set")
                          ELSE IF Head(w) = "}" /\ kind # "dict"
                          THEN ParseOk(PySet(Append(acc, r.v)), Tail(w))
                          ELSE ParseFail

\* hash(v) succeeds: lists, dicts and sets have no hash, a tuple has one
\* when its items have
RECURSIVE Hashable(_)
Hashable(v) ==
    CASE v.k \in {"list", "dict", "set"} -> FALSE
      [] v.k = "tuple" -> \A i \in 1..Len(v.items) : Hashable(v.items[i])
      [] OTHER -> TRUE

\* every dict and set inside v can be built: its keys, or elements, hash
RECURSIVE Buildable(_)
Buildable(v) ==
    CASE v.k \in {"list", "tuple"} -> \A i \in 1..Len(v.items) : Buildable(v.items[i])
      [] v.k = "set" -> \A i \in 1..Len(v.items) : Hashable(v.items[i])
      [] v.k = "dict" -> \A i \in 1..Len(v.items) :
                            Hashable(v.items[i][1]) /\ Buildable(v.items[i][2])
      [] OTHER -> TRUE

\* literal_eval(text): [ok |-> TRUE, v |-> value], or [ok |-> FALSE] with
\* the exception: SyntaxError (standing for ValueError too) when the text is
\* not a literal, TypeError when the literal holds a dict or set whose key
\* or element is unhashable
literal_eval(t) ==
    LET r == ParseValue(t, "py")
    IN  IF r.ok /\ SkipWs(r.rest) = <<>>
        THEN IF Buildable(r.v) THEN [ok |-> TRUE, v |-> r.v]
             ELSE [ok |-> FALSE, exc |-> "TypeError"]
        ELSE [ok |-> FALSE, exc |-> "SyntaxError"]

(***************************************************************************)
(* Helpers of the exchange protocol                                        *)
(***************************************************************************)
\* convert_numpy_to_python: numpy scalars become native floats, lists are
\* walked, everything else is returned as it is
RECURSIVE convert_numpy_to_python(_)
convert_numpy_to_python(obj) ==
    IF obj.k = "np" THEN PyFloat(obj.n)
    ELSE IF obj.k = "list"
    THEN PyList([i \in 1..Len(obj.items) |-> convert_numpy_to_python(obj.items[i])])
    ELSE IF obj.k = "tuple"
    THEN PyTuple([i \in 1..Len(obj.items) |-> convert_numpy_to_python(obj.items[i])])
    ELSE obj

\* a + b on Python numbers; [ok |-> FALSE] is TypeError
PyAdd(a, b) ==
    IF ~(IsNumber(a) /\ IsNumber(b)) THEN [ok |-> FALSE]
    ELSE IF a.k = "np" \/ b.k = "np" THEN [ok |-> TRUE, v |-> NpFloat(Tenths(a) + Tenths(b))]
    ELSE IF a.k = "float" \/ b.k = "float" THEN [ok |-> TRUE, v |-> PyFloat(Tenths(a) + Tenths(b))]
    ELSE [ok |-> TRUE, v |-> PyInt(a.n + b.n)]

\* max(a, b) taken for its second argument
PyMax_second(a, b) == b

\* max(a, b): the first argument unless the second is greater
PyMax(a, b) == IF Tenths(b) > Tenths(a) THEN b ELSE a

\* int(x): [ok |-> TRUE, n |-> n], or the exception raised
RECURSIVE RStrip(_)
RStrip(t) == IF t # <<>> /\ t[Len(t)] = " " THEN RStrip(SubSeq(t, 1, Len(t) - 1)) ELSE t

PyIntOf(x) ==
    CASE x.k = "int" -> [ok |-> TRUE, n |-> x.n]
      [] x.k \in {"float", "np"} ->
           [ok |-> TRUE, n |-> IF x.n >= 0 THEN x.n \div 10 ELSE -((-x.n) \div 10)]
      [] x.k = "str" ->
           LET u == RStrip(SkipWs(x.t))
               neg == u # <<>> /\ Head(u) = "-"
               d == IF u # <<>> /\ Head(u) \in {"-", "+"} THEN Tail(u) ELSE u
               a == ScanNat(d, 0, 0)
           IN  IF a.len > 0 /\ a.rest = <<>>
               THEN [ok |-> TRUE, n |-> IF neg THEN -a.n ELSE a.n]
               ELSE [ok |-> FALSE, exc |-> "ValueError"]
      [] OTHER -> [ok |-> FALSE, exc |-> "TypeError"]

\* default_return_val of read: the parsed default when it is text that
\* parses, else the default itself
Fallback(initstr_val) ==
    IF IsStr(initstr_val) /\ literal_eval(initstr_val.t).ok
    THEN literal_eval(initstr_val.t).v
    ELSE initstr_val

\* a == b on Python values: numbers by value, lists and tuples item by item
RECURSIVE PyEq(_, _)
PyEq(a, b) ==
    IF IsNumber(a) /\ IsNumber(b) THEN Tenths(a) = Tenths(b)
    ELSE IF a.k \in {"list", "tuple"} /\ a.k = b.k
    THEN /\ Len(a.items) = Len(b.items)
         /\ \A i \in 1..Len(a.items) : PyEq(a.items[i], b.items[i])
    ELSE a = b

\* literal_eval(initstr_val) raises what read does not catch
FallbackRaises(initstr_val) ==
    IsStr(initstr_val) /\ ~literal_eval(initstr_val.t).ok
        /\ literal_eval(initstr_val.t).exc = "TypeError"

\* xs[1:] taken for xs
Rest_whole(xs) == xs

\* xs[1:]
Rest(xs) == IF xs = <<>> THEN <<>> ELSE Tail(xs)

(***************************************************************************)
(* JSON documents on the socket (send_json / recv_json)                    *)
(***************************************************************************)
\* the JSON encoder takes None, bool, int, float (np.float64 is a float),
\* str, and lists and tuples of these
RECURSIVE Serializable(_)
Serializable(v) ==
    CASE v.k \in {"list", "tuple"} -> \A i \in 1..Len(v.items) : Serializable(v.items[i])
      [] OTHER -> v.k \in {"none", "bool", "int", "float", "np", "str"}

RECURSIVE JsonDumps(_)
RECURSIVE JoinJson(_)
JoinJson(xs) ==
    IF xs = <<>> THEN <<>>
    ELSE IF Len(xs) = 1 THEN JsonDumps(xs[1])
    ELSE JsonDumps(xs[1]) \o <<",", " ">> \o JoinJson(Tail(xs))

JsonDumps(v) ==
    CASE v.k = "int" -> IntText(v.n)
      [] v.k \in {"float", "np"} -> FloatText(v.n)
      [] v.k = "str" -> <<"\"">> \o v.t \o <<"\"">>
      [] v.k \in {"list", "tuple"} -> <<"[">> \o JoinJson(v.items) \o <<"]">>
      [] v.k = "none" -> <<"n", "u", "l", "l">>
      [] v.k = "bool" -> IF v.b THEN <<"t", "r", "u", "e">>
                         ELSE <<"f", "a", "l", "s", "e">>

JsonLoads(t) ==
    LET r == ParseValue(t, "json")
    IN  IF r.ok /\ SkipWs(r.rest) = <<>> THEN [ok |-> TRUE, v |-> r.v]
        ELSE ParseFail

(***************************************************************************)
(* parse_params                                                            *)
(***************************************************************************)
\* t.strip()
Strip(t) == RStrip(SkipWs(t))

\* t.find(c) + 1: the place of the first c in t, 0 when there is none
RECURSIVE Find(_, _, _)
Find(t, c, i) ==
    IF i > Len(t) THEN 0 ELSE IF t[i] = c THEN i ELSE Find(t, c, i + 1)

\* t.split(c)
RECURSIVE Split(_, _)
Split(t, c) ==
    LET i == Find(t, c, 1)
    IN  IF i = 0 THEN <<t>>
        ELSE <<SubSeq(t, 1, i - 1)>> \o Split(SubSeq(t, i + 1, Len(t)), c)

\* the for loop of parse_params over the segments items, from the mapping
\* params; [ok |-> FALSE] when literal_eval raises what the loop does not
\* catch
RECURSIVE ParamsLoop(_, _)
ParamsLoop(items, params) ==
    IF items = <<>> THEN [ok |-> TRUE, v |-> PyDict(params)]
    ELSE LET item == Head(items)
             i == Find(item, "=", 1)
             key == Strip(SubSeq(item, 1, i - 1))
             value == Strip(SubSeq(item, i + 1, Len(item)))
             r == literal_eval(value)
         IN  IF i = 0 THEN ParamsLoop(Tail(items), params)
             ELSE IF r.ok
             THEN ParamsLoop(Tail(items), DictSet(params, PyText(key), r.v))
             ELSE IF r.exc = "TypeError" THEN [ok |-> FALSE, exc |-> r.exc]
             ELSE ParamsLoop(Tail(items), DictSet(params, PyText(key), PyText(value)))

\* parse_params(sparams): [ok |-> TRUE, v |-> the mapping], or the exception
parse_params_result(sparams) ==
    IF sparams = <<>> THEN [ok |-> TRUE, v |-> PyDict(<<>>)]
    ELSE LET s1 == Strip(sparams)
             braced == s1 # <<>> /\ Head(s1) = "{" /\ s1[Len(s1)] = "}"
             val == literal_eval(s1)
         IN  IF braced /\ ~val.ok /\ val.exc = "TypeError"
             THEN [ok |-> FALSE, exc |-> val.exc]
             ELSE IF braced /\ val.ok /\ val.v.k = "dict"
             THEN [ok |-> TRUE, v |-> val.v]
             ELSE ParamsLoop(Split(s1, ";"), <<>>)

(***************************************************************************)
(* Program constants                                                       *)
(***************************************************************************)
\* delay = 1 second, in tenths of a second
delay == 10
\* time.sleep(0.5) of the socket retry loops, in tenths of a second
SocketPause == 5
\* max_retries of the file read
max_retries_one_short == 5 - 1
max_retries == 5
\* range(5) of the socket retry loops
SocketAttempts_one_more == 5 + 1
SocketAttempts == 5

(***************************************************************************)
(* Bounds of the model                                                     *)
(***************************************************************************)
\* calls process A makes on file ports (specification Spec)
MaxCalls == 2
\* calls process A makes with socket ports (specification SpecZmq)
MaxZmqCalls == 3
\* calls the reader and the writer of a shared file make (specification SpecPair)
MaxReaderCalls == 2
MaxPeerCalls == 2
\* messages a socket holds in flight
MaxWire == 1
\* calls process A makes of init_zmq_port and terminate_zmq (specification
\* SpecLife)
MaxLifeCalls == 4
\* calls process A makes of read and unchanged (specification SpecFp)
MaxFpCalls == 5
\* segments of a parameter text (specification SpecParams)
MaxSegs == 3

(***************************************************************************)
(* State                                                                   *)
(***************************************************************************)
\* "A" is the process under study, "B" the peer at the other end of its
\* ports: what B writes to its output directory A finds in its input
\* directory, and the other way round.
Procs == {"A", "B"}
Peer(p) == IF p = "A" THEN "B" ELSE "A"

\* file port numbers whose directories exist, and the file names used
PortNums == {1}
Names == {"f"}
Paths == {"AtoB", "BtoA"} \X PortNums \X Names

\* os.path.join(inpath + str(n), name) and os.path.join(outpath + str(n), name)
InPath(p, n, name) == <<IF p = "A" THEN "BtoA" ELSE "AtoB", n, name>>
OutPath(p, n, name) == <<IF p = "A" THEN "AtoB" ELSE "BtoA", n, name>>

Missing == [st |-> "missing", data |-> <<>>]
Denied == [st |-> "denied", data |-> <<>>]
FileOf(t) == [st |-> "file", data |-> t]

VARIABLES
    simtime,     \* simtime of each process
    s,           \* s: the text read since the last unchanged()
    olds,        \* olds
    checked,     \* s as the last call of unchanged() found it and left it
    retrycount,  \* retrycount
    zmq_ports,   \* zmq_ports: registered name -> port
    todo,        \* the ports the loop of terminate_zmq has still to visit
    fs,          \* the files of the port directories
    wire,        \* JSON documents in flight to each process
    pc,          \* where each process is in its current call
    call,        \* the arguments of the current (or last) call
    ins,         \* local ins of read
    attempts,    \* local attempts of read / attempt of the socket loops
    ret,         \* what the last call returned or raised
    trace,       \* pauses, I/O attempts and log records of the call
    pre,         \* simtime, retrycount and output files when the call began
    budget       \* calls each process may still make

vars == <<simtime, s, olds, checked, retrycount, zmq_ports, todo, fs, wire, pc, call, ins,
          attempts, ret, trace, pre, budget>>

NoRet == [kind |-> "none", v |-> PyNone]
Ret(v) == [kind |-> "return", v |-> v]
Raise(e) == [kind |-> "raise", v |-> PyText(<<e>>)]

NoCall == [op |-> "none", port |-> PyNone, name |-> "f", val |-> PyNone, delta |-> PyNone]
Call(op, port, name, val, delta) ==
    [op |-> op, port |-> port, name |-> name, val |-> val, delta |-> delta]

Ev(e, d) == [e |-> e, d |-> d]
Sleep(d) == Ev("sleep", d)
\* an attempt to open and read the input file, by what it found; content
\* that is not empty is kept with the event
ReadEv(f) ==
    CASE f.st = "missing" -> Ev("read_missing", 0)
      [] f.st = "denied" -> Ev("read_denied", 0)
      [] f.data = <<>> -> Ev("read_empty", 0)
      [] OTHER -> [e |-> "read_data", d |-> 0, data |-> f.data]
OpenWrite == Ev("open_write", 0)
SendEv == Ev("send", 0)
RecvEv == Ev("recv", 0)
LogError == Ev("error", 0)
LogWarning == Ev("warning", 0)
LogInfo == Ev("info", 0)

\* the file at a path; a path under a directory that does not exist has none
FileAt(path) == IF path \in Paths THEN fs[path] ELSE Missing

\* the output files of p
OutFiles(p) == [q \in {x \in Paths : x[1] = OutPath(p, 1, "f")[1]} |-> fs[q]]

Snapshot(p) ==
    [simtime |-> simtime[p], retrycount |-> retrycount[p], out |-> OutFiles(p),
     wire |-> wire[Peer(p)]]

\* the state after import, with the calls a and b that A and B may make
InitWith(a, b) ==
    /\ simtime = [p \in Procs |-> PyInt(0)]
    /\ s = [p \in Procs |-> <<>>]
    /\ olds = [p \in Procs |-> <<>>]
    /\ checked = [p \in Procs |-> [called |-> FALSE, at |-> <<>>, left |-> <<>>]]
    /\ retrycount = [p \in Procs |-> 0]
    /\ zmq_ports = [p \in Procs |-> <<>>]
    /\ todo = [p \in Procs |-> {}]
    /\ fs = [q \in Paths |-> Missing]
    /\ wire = [p \in Procs |-> <<>>]
    /\ pc = [p \in Procs |-> "idle"]
    /\ call = [p \in Procs |-> NoCall]
    /\ ins = [p \in Procs |-> <<>>]
    /\ attempts = [p \in Procs |-> 0]
    /\ ret = [p \in Procs |-> NoRet]
    /\ trace = [p \in Procs |-> <<>>]
    /\ pre = [p \in Procs |-> [simtime |-> PyInt(0), retrycount |-> 0,
                               out |-> [q \in {x \in Paths : x[1] = OutPath(p, 1, "f")[1]} |-> Missing],
                               wire |-> <<>>]]
    /\ budget = [p \in Procs |-> IF p = "A" THEN a ELSE b]

Init == InitWith(MaxCalls, 0)

\* the fields of process p that a step of a call may change
Cur(p) ==
    [simtime |-> simtime[p], s |-> s[p], retrycount |-> retrycount[p],
     pc |-> pc[p], ins |-> ins[p], attempts |-> attempts[p],
     ret |-> ret[p], trace |-> trace[p]]

Apply(p, o) ==
    /\ simtime' = [simtime EXCEPT ![p] = o.simtime]
    /\ s' = [s EXCEPT ![p] = o.s]
    /\ retrycount' = [retrycount EXCEPT ![p] = o.retrycount]
    /\ pc' = [pc EXCEPT ![p] = o.pc]
    /\ ins' = [ins EXCEPT ![p] = o.ins]
    /\ attempts' = [attempts EXCEPT ![p] = o.attempts]
    /\ ret' = [ret EXCEPT ![p] = o.ret]
    /\ trace' = [trace EXCEPT ![p] = o.trace]

\* a call begins: its arguments and the state it starts from are recorded
Begin(p, c) ==
    /\ pc[p] = "idle"
    /\ budget[p] > 0
    /\ budget' = [budget EXCEPT ![p] = @ - 1]
    /\ call' = [call EXCEPT ![p] = c]
    /\ pre' = [pre EXCEPT ![p] = Snapshot(p)]

\* the call returns r (or raises)
Done(o, r, tr) ==
    [o EXCEPT !.pc = "idle", !.ins = <<>>, !.attempts = 0, !.ret = r, !.trace = tr]

Registered(p, port) == IsStr(port) /\ port.t \in DOMAIN zmq_ports[p]

(***************************************************************************)
(* read                                                                    *)
(***************************************************************************)
\* read, from "s += ins" to the return: the content is added to the
\* fingerprint and parsed; a non-empty list gives its first element to
\* simtime and the rest to the caller
ReadTail(o, insv, initstr_val, tr) ==
    IF Len(insv) = 0
    THEN Done(o, Ret(Fallback(initstr_val)), Append(tr, LogError))
    ELSE LET o1 == [o EXCEPT !.s = @ \o insv]
             r == literal_eval(insv)
         IN  IF ~r.ok
             THEN Done(o1, Ret(Fallback(initstr_val)), Append(tr, LogError))
             ELSE IF IsList(r.v) /\ Len(r.v.items) > 0
             THEN LET current_simtime_from_file == r.v.items[1]
                      o2 == IF IsNumber(current_simtime_from_file)
                            THEN [o1 EXCEPT !.simtime = PyMax(@, current_simtime_from_file)]
                            ELSE o1
                  IN  Done(o2, Ret(PyList(Rest(r.v.items))), tr)
             ELSE Done(o1, Ret(r.v), Append(tr, LogWarning))

\* read(port_identifier, name, initstr_val), up to the first pause or
\* socket attempt
read(p, port_identifier, name, initstr_val) ==
    /\ Begin(p, Call("read", port_identifier, name, initstr_val, PyNone))
    /\ LET o == [Cur(p) EXCEPT !.ret = NoRet, !.trace = <<>>]
           file_port_num == PyIntOf(port_identifier)
       IN  Apply(p,
             IF FallbackRaises(initstr_val)
             THEN Done(o, Raise("TypeError"), <<>>)
             ELSE IF Registered(p, port_identifier)
             THEN [o EXCEPT !.pc = "recv", !.attempts = 0]
             ELSE IF file_port_num.ok
             THEN [o EXCEPT !.pc = "read_first"]
             ELSE IF file_port_num.exc = "ValueError"
             THEN Done(o, Ret(Fallback(initstr_val)), <<LogError>>)
             ELSE Done(o, Raise(file_port_num.exc), <<>>))
    /\ UNCHANGED <<olds, checked, zmq_ports, todo, fs, wire>>

\* the pause and the first attempt to read the file; f is the file found
read_first(p, f) ==
    /\ pc[p] = "read_first"
    /\ LET c == call[p]
           tr == trace[p] \o <<Sleep(delay), ReadEv(f)>>
           o == Cur(p)
       IN  Apply(p,
             IF f.st = "denied"
             THEN Done(o, Ret(Fallback(c.val)), Append(tr, LogError))
             ELSE LET insv == IF f.st = "missing" THEN PyStr(c.val) ELSE f.data
                      o1 == IF f.st = "missing" THEN [o EXCEPT !.s = @ \o insv] ELSE o
                  IN  IF Len(insv) = 0 /\ 0 < max_retries
                      THEN [o1 EXCEPT !.pc = "read_retry", !.ins = insv,
                                      !.attempts = 0, !.trace = tr]
                      ELSE ReadTail(o1, insv, c.val, tr))
    /\ UNCHANGED <<olds, checked, zmq_ports, todo, fs, wire, call, pre, budget>>

\* the retry loop reading the file again without keeping what it read
read_retry_drops(p, f) ==
    /\ pc[p] = "read_retry"
    /\ LET c == call[p]
           tr == (trace[p] \o <<Sleep(delay), ReadEv(f)>>)
                 \o (IF f.st = "file" THEN <<>> ELSE <<LogWarning>>)
           insv == ins[p]
           o == [Cur(p) EXCEPT !.ins = insv, !.attempts = @ + 1,
                               !.retrycount = @ + 1, !.trace = tr]
       IN  Apply(p,
             IF Len(insv) = 0 /\ o.attempts < max_retries
             THEN o
             ELSE ReadTail(o, insv, c.val, tr))
    /\ UNCHANGED <<olds, checked, zmq_ports, todo, fs, wire, call, pre, budget>>

\* one turn of the retry loop: pause, read again, count; f is the file found
read_retry(p, f) ==
    /\ pc[p] = "read_retry"
    /\ LET c == call[p]
           tr == (trace[p] \o <<Sleep(delay), ReadEv(f)>>)
                 \o (IF f.st = "file" THEN <<>> ELSE <<LogWarning>>)
           insv == IF f.st = "file" THEN f.data ELSE ins[p]
           o == [Cur(p) EXCEPT !.ins = insv, !.attempts = @ + 1,
                               !.retrycount = @ + 1, !.trace = tr]
       IN  Apply(p,
             IF Len(insv) = 0 /\ o.attempts < max_retries
             THEN o
             ELSE ReadTail(o, insv, c.val, tr))
    /\ UNCHANGED <<olds, checked, zmq_ports, todo, fs, wire, call, pre, budget>>

\* one receive attempt of recv_json_with_retry, and what read makes of it
recv_json_with_retry(p) ==
    /\ pc[p] = "recv"
    /\ LET c == call[p]
           o == Cur(p)
           tr == Append(trace[p], RecvEv)
           open == ~zmq_ports[p][c.port.t].closed
       IN  \/ \* a document arrives
              /\ open
              /\ wire[p] # <<>>
              /\ wire' = [wire EXCEPT ![p] = Tail(@)]
              /\ LET m == JsonLoads(Head(wire[p]))
                 IN  Apply(p, IF m.ok THEN Done(o, Ret(m.v), tr)
                              ELSE Done(o, Ret(Fallback(c.val)), Append(tr, LogError)))
           \/ \* zmq.Again: the attempt timed out
              /\ open
              /\ wire' = wire
              /\ LET tr1 == tr \o <<LogWarning, Sleep(SocketPause)>>
                 IN  Apply(p, IF attempts[p] + 1 < SocketAttempts
                              THEN [o EXCEPT !.attempts = @ + 1, !.trace = tr1]
                              ELSE Done(o, Ret(PyNone), Append(tr1, LogError)))
           \/ \* any other ZMQError
              /\ wire' = wire
              /\ Apply(p, Done(o, Ret(Fallback(c.val)), Append(tr, LogError)))
    /\ UNCHANGED <<olds, checked, zmq_ports, todo, fs, call, pre, budget>>

(***************************************************************************)
(* write                                                                   *)
(***************************************************************************)
\* open(file_path, "w") succeeds when the directory exists and the file
\* may be written
CanOpenW(path) == path \in Paths /\ fs[path].st # "denied"

\* with open(file_path, "w"): the file is created or truncated, or the
\* exception is logged and write returns
OpenW(o, path, tr) ==
    IF CanOpenW(path)
    THEN [o |-> [o EXCEPT !.pc = "write_store", !.trace = Append(tr, OpenWrite)],
          trunc |-> TRUE]
    ELSE [o |-> Done(o, Ret(PyNone), tr \o <<OpenWrite, LogError>>), trunc |-> FALSE]

\* the file stage with the file opened before the type of val is looked at
FileStage_open_first(o, p, c, tr) ==
    LET file_port_num == PyIntOf(c.port)
    IN  IF ~file_port_num.ok
        THEN [o |-> IF file_port_num.exc = "ValueError"
                    THEN Done(o, Ret(PyNone), Append(tr, LogError))
                    ELSE Done(o, Raise(file_port_num.exc), tr),
              trunc |-> FALSE]
        ELSE IF IsStr(c.val)
        THEN [o |-> [o EXCEPT !.pc = "write_open", !.trace = tr], trunc |-> FALSE]
        ELSE LET r == OpenW(o, OutPath(p, file_port_num.n, c.name), tr)
             IN  IF IsList(c.val) THEN r
                 ELSE [o |-> Done(o, Ret(PyNone), Append(r.o.trace, LogError)),
                       trunc |-> r.trunc]

\* write from "Case 2: File-based port" to the opening of the file
FileStage(o, p, c, tr) ==
    LET file_port_num == PyIntOf(c.port)
    IN  IF ~file_port_num.ok
        THEN [o |-> IF file_port_num.exc = "ValueError"
                    THEN Done(o, Ret(PyNone), Append(tr, LogError))
                    ELSE Done(o, Raise(file_port_num.exc), tr),
              trunc |-> FALSE]
        ELSE IF IsStr(c.val)
        THEN [o |-> [o EXCEPT !.pc = "write_open", !.trace = tr], trunc |-> FALSE]
        ELSE IF ~IsList(c.val)
        THEN [o |-> Done(o, Ret(PyNone), Append(tr, LogError)), trunc |-> FALSE]
        ELSE OpenW(o, OutPath(p, file_port_num.n, c.name), tr)

\* the effect of a file stage on the files
Truncate(p, c, r) ==
    fs' = IF r.trunc
          THEN [fs EXCEPT ![OutPath(p, PyIntOf(c.port).n, c.name)] = FileOf(<<>>)]
          ELSE fs

\* the with block stamping the envelope with simtime before delta is added
StoreResult_stale_stamp(st, val, delta) ==
    IF IsList(val)
    THEN LET val_converted == convert_numpy_to_python(val)
             t == PyAdd(st, delta)
         IN  IF t.ok
             THEN [ok |-> TRUE,
                   text |-> PyStr(PyList(<<st>> \o val_converted.items)),
                   simtime |-> t.v]
             ELSE [ok |-> FALSE]
    ELSE [ok |-> TRUE, text |-> val.t, simtime |-> st]

\* the body of the with block: the text stored and the new simtime, or
\* [ok |-> FALSE] when simtime + delta raises
StoreResult(st, val, delta) ==
    IF IsList(val)
    THEN LET val_converted == convert_numpy_to_python(val)
             t == PyAdd(st, delta)
         IN  IF t.ok
             THEN [ok |-> TRUE,
                   text |-> PyStr(PyList(<<t.v>> \o val_converted.items)),
                   simtime |-> t.v]
             ELSE [ok |-> FALSE]
    ELSE [ok |-> TRUE, text |-> val.t, simtime |-> st]

\* write(port_identifier, name, val, delta), up to the first socket
\* attempt, pause or opening of the file
write(p, port_identifier, name, val, delta) ==
    LET c == Call("write", port_identifier, name, val, delta)
        o == [Cur(p) EXCEPT !.ret = NoRet, !.trace = <<>>]
    IN  /\ Begin(p, c)
        /\ IF Registered(p, port_identifier)
           THEN /\ Apply(p, [o EXCEPT !.pc = "send", !.attempts = 0])
                /\ fs' = fs
           ELSE LET r == FileStage(o, p, c, <<>>)
                IN  Apply(p, r.o) /\ Truncate(p, c, r)
        /\ UNCHANGED <<olds, checked, zmq_ports, todo, wire>>

\* one send attempt of send_json_with_retry; when the loop is over write
\* goes on to its file stage
send_json_with_retry(p) ==
    /\ pc[p] = "send"
    /\ LET c == call[p]
           o == [Cur(p) EXCEPT !.attempts = 0]
           tr == Append(trace[p], SendEv)
           open == ~zmq_ports[p][c.port.t].closed
       IN  \/ \* the document is handed to the socket (or cannot be serialized)
              /\ open
              /\ Serializable(c.val) => Len(wire[Peer(p)]) < MaxWire
              /\ wire' = IF Serializable(c.val)
                         THEN [wire EXCEPT ![Peer(p)] = Append(@, JsonDumps(c.val))]
                         ELSE wire
              /\ LET r == FileStage(o, p, c, IF Serializable(c.val) THEN tr
                                             ELSE Append(tr, LogError))
                 IN  Apply(p, r.o) /\ Truncate(p, c, r)
           \/ \* zmq.Again: the attempt timed out
              /\ open
              /\ Serializable(c.val)
              /\ wire' = wire
              /\ LET tr1 == tr \o <<LogWarning, Sleep(SocketPause)>>
                 IN  IF attempts[p] + 1 < SocketAttempts
                     THEN /\ Apply(p, [Cur(p) EXCEPT !.attempts = @ + 1, !.trace = tr1])
                          /\ fs' = fs
                     ELSE LET r == FileStage(o, p, c, Append(tr1, LogError))
                          IN  Apply(p, r.o) /\ Truncate(p, c, r)
           \/ \* any other ZMQError
              /\ Serializable(c.val)
              /\ wire' = wire
              /\ LET r == FileStage(o, p, c, Append(tr, LogError))
                 IN  Apply(p, r.o) /\ Truncate(p, c, r)
    /\ UNCHANGED <<olds, checked, zmq_ports, todo, call, pre, budget>>

\* a text value: after the pause of 2 * delay the file is opened
write_open(p) ==
    /\ pc[p] = "write_open"
    /\ LET c == call[p]
           r == OpenW(Cur(p), OutPath(p, PyIntOf(c.port).n, c.name),
                      Append(trace[p], Sleep(2 * delay)))
       IN  Apply(p, r.o) /\ Truncate(p, c, r)
    /\ UNCHANGED <<olds, checked, zmq_ports, todo, wire, call, pre, budget>>

\* the body of the with block and the closing of the file
write_store(p) ==
    /\ pc[p] = "write_store"
    /\ LET c == call[p]
           path == OutPath(p, PyIntOf(c.port).n, c.name)
           r == StoreResult(simtime[p], c.val, c.delta)
       IN  IF r.ok
           THEN /\ fs' = [fs EXCEPT ![path] = FileOf(r.text)]
                /\ Apply(p, Done([Cur(p) EXCEPT !.simtime = r.simtime],
                                 Ret(PyNone), trace[p]))
           ELSE /\ fs' = fs
                /\ Apply(p, Done(Cur(p), Ret(PyNone), Append(trace[p], LogError)))
    /\ UNCHANGED <<olds, checked, zmq_ports, todo, wire, call, pre, budget>>

(***************************************************************************)
(* initval, init_zmq_port                                                  *)
(***************************************************************************)
\* initval returning val instead of val[1:] after it set simtime
InitvalResult_whole_list(st, simtime_val_str) ==
    LET r == IF IsStr(simtime_val_str) THEN literal_eval(simtime_val_str.t) ELSE ParseFail
    IN  IF ~r.ok THEN [simtime |-> st, ret |-> PyList(<<>>), log |-> <<LogError>>]
        ELSE IF IsList(r.v) /\ Len(r.v.items) > 0
        THEN LET first_element == r.v.items[1]
             IN  IF IsNumber(first_element)
                 THEN [simtime |-> first_element, ret |-> r.v, log |-> <<>>]
                 ELSE [simtime |-> st,
                       ret |-> IF Len(r.v.items) > 1 THEN PyList(Rest(r.v.items))
                               ELSE PyList(<<>>),
                       log |-> <<LogError>>]
        ELSE [simtime |-> st, ret |-> PyList(<<>>), log |-> <<LogError>>]

\* what initval does to simtime and what it returns
InitvalResult(st, simtime_val_str) ==
    LET r == IF IsStr(simtime_val_str) THEN literal_eval(simtime_val_str.t) ELSE ParseFail
    IN  IF ~r.ok THEN [simtime |-> st, ret |-> PyList(<<>>), log |-> <<LogError>>]
        ELSE IF IsList(r.v) /\ Len(r.v.items) > 0
        THEN LET first_element == r.v.items[1]
             IN  IF IsNumber(first_element)
                 THEN [simtime |-> first_element, ret |-> PyList(Rest(r.v.items)), log |-> <<>>]
                 ELSE [simtime |-> st,
                       ret |-> IF Len(r.v.items) > 1 THEN PyList(Rest(r.v.items))
                               ELSE PyList(<<>>),
                       log |-> <<LogError>>]
        ELSE [simtime |-> st, ret |-> PyList(<<>>), log |-> <<LogError>>]

initval(p, simtime_val_str) ==
    /\ Begin(p, Call("initval", PyNone, "f", simtime_val_str, PyNone))
    /\ LET r == InitvalResult(simtime[p], simtime_val_str)
       IN  Apply(p, Done([Cur(p) EXCEPT !.simtime = r.simtime], Ret(r.ret), r.log))
    /\ UNCHANGED <<olds, checked, zmq_ports, todo, fs, wire>>

\* the socket types getattr(zmq, ...) finds
ZmqSocketTypes == {"REQ", "REP", "PUB", "SUB"}
Upper(t) == CASE t = "req" -> "REQ" [] t = "rep" -> "REP"
              [] t = "pub" -> "PUB" [] t = "sub" -> "SUB" [] OTHER -> t

\* ZeroMQPort(port_type, address, zmq_socket_type)
ZeroMQPort(port_type, address, zmq_socket_type) ==
    [port_type |-> port_type, address |-> address,
     socket_type |-> zmq_socket_type, closed |-> FALSE, term |-> FALSE]

\* init_zmq_port registering the name again when its port has been closed
init_zmq_port_reopens(p, port_name, port_type, address, socket_type_str, bound) ==
    /\ Begin(p, Call("init_zmq_port", PyText(port_name), "f",
                     PyText(<<socket_type_str>>), PyNone))
    /\ IF port_name \in DOMAIN zmq_ports[p] /\ ~zmq_ports[p][port_name].closed
       THEN /\ zmq_ports' = zmq_ports
            /\ Apply(p, Done(Cur(p), Ret(PyNone), <<LogInfo>>))
       ELSE IF Upper(socket_type_str) \in ZmqSocketTypes /\ bound
       THEN /\ zmq_ports' = [zmq_ports EXCEPT ![p] =
                   (port_name :> ZeroMQPort(port_type, address, Upper(socket_type_str))) @@ @]
            /\ Apply(p, Done(Cur(p), Ret(PyNone), <<LogInfo, LogInfo>>))
       ELSE /\ zmq_ports' = zmq_ports
            /\ Apply(p, Done(Cur(p), Ret(PyNone), <<LogError>>))
    /\ UNCHANGED <<olds, checked, todo, fs, wire>>

\* init_zmq_port; bound is whether bind / connect succeeds
init_zmq_port(p, port_name, port_type, address, socket_type_str, bound) ==
    /\ Begin(p, Call("init_zmq_port", PyText(port_name), "f",
                     PyText(<<socket_type_str>>), PyNone))
    /\ IF port_name \in DOMAIN zmq_ports[p]
       THEN /\ zmq_ports' = zmq_ports
            /\ Apply(p, Done(Cur(p), Ret(PyNone), <<LogInfo>>))
       ELSE IF Upper(socket_type_str) \in ZmqSocketTypes /\ bound
       THEN /\ zmq_ports' = [zmq_ports EXCEPT ![p] =
                   (port_name :> ZeroMQPort(port_type, address, Upper(socket_type_str))) @@ @]
            /\ Apply(p, Done(Cur(p), Ret(PyNone), <<LogInfo, LogInfo>>))
       ELSE /\ zmq_ports' = zmq_ports
            /\ Apply(p, Done(Cur(p), Ret(PyNone), <<LogError>>))
    /\ UNCHANGED <<olds, checked, todo, fs, wire>>

(***************************************************************************)
(* unchanged                                                               *)
(***************************************************************************)
\* unchanged(): True, with s emptied, when s is what olds holds; else olds
\* takes s and the result is False
unchanged(p) ==
    /\ Begin(p, Call("unchanged", PyNone, "f", PyNone, PyNone))
    /\ IF olds[p] = s[p]
       THEN /\ olds' = olds
            /\ Apply(p, Done([Cur(p) EXCEPT !.s = <<>>], Ret(PyBool(TRUE)), <<>>))
       ELSE /\ olds' = [olds EXCEPT ![p] = s[p]]
            /\ Apply(p, Done(Cur(p), Ret(PyBool(FALSE)), <<>>))
    /\ checked' = [checked EXCEPT ![p] = [called |-> TRUE, at |-> s[p], left |-> s'[p]]]
    /\ UNCHANGED <<zmq_ports, todo, fs, wire>>

(***************************************************************************)
(* terminate_zmq                                                           *)
(***************************************************************************)
\* port.socket.close(), port.context.term() and the error logged for a port
CloseEv(n) == [e |-> "close", d |-> 0, port |-> n]
TermEv(n) == [e |-> "term", d |-> 0, port |-> n]
PortError(n) == [e |-> "error", d |-> 0, port |-> n]

\* terminate_zmq(): the loop starts over the registered ports
terminate_zmq(p) ==
    /\ Begin(p, Call("terminate_zmq", PyNone, "f", PyNone, PyNone))
    /\ LET o == [Cur(p) EXCEPT !.ret = NoRet, !.trace = <<>>]
       IN  IF DOMAIN zmq_ports[p] = {}
           THEN Apply(p, Done(o, Ret(PyNone), <<>>))
           ELSE Apply(p, [o EXCEPT !.pc = "terminate"])
    /\ todo' = [todo EXCEPT ![p] = DOMAIN zmq_ports[p]]
    /\ UNCHANGED <<olds, checked, zmq_ports, fs, wire>>

\* the loop of terminate_zmq stopping at the first port that fails
terminate_port_stops(p, n, outcome) ==
    /\ pc[p] = "terminate"
    /\ n \in todo[p]
    /\ LET port == zmq_ports[p][n]
           left == IF outcome = "closed" THEN todo[p] \ {n} ELSE {}
           tr == trace[p] \o
                 CASE outcome = "close_fails" -> <<CloseEv(n), PortError(n)>>
                   [] outcome = "term_fails" -> <<CloseEv(n), TermEv(n), PortError(n)>>
                   [] OTHER -> <<CloseEv(n), TermEv(n)>>
       IN  /\ zmq_ports' = [zmq_ports EXCEPT ![p][n] =
                   CASE outcome = "close_fails" -> port
                     [] outcome = "term_fails" -> [port EXCEPT !.closed = TRUE]
                     [] OTHER -> [port EXCEPT !.closed = TRUE, !.term = TRUE]]
           /\ todo' = [todo EXCEPT ![p] = left]
           /\ Apply(p, IF left = {} THEN Done(Cur(p), Ret(PyNone), tr)
                        ELSE [Cur(p) EXCEPT !.trace = tr])
    /\ UNCHANGED <<olds, checked, fs, wire, call, pre, budget>>

\* one turn of the loop of terminate_zmq, for the port named n; outcome is
\* whether socket.close() raises, context.term() raises, or neither.  The
\* loop takes the ports in the order of their registration, which the
\* registry of the model does not keep: here it takes them in any order.
terminate_port(p, n, outcome) ==
    /\ pc[p] = "terminate"
    /\ n \in todo[p]
    /\ LET port == zmq_ports[p][n]
           left == todo[p] \ {n}
           tr == trace[p] \o
                 CASE outcome = "close_fails" -> <<CloseEv(n), PortError(n)>>
                   [] outcome = "term_fails" -> <<CloseEv(n), TermEv(n), PortError(n)>>
                   [] OTHER -> <<CloseEv(n), TermEv(n)>>
       IN  /\ zmq_ports' = [zmq_ports EXCEPT ![p][n] =
                   CASE outcome = "close_fails" -> port
                     [] outcome = "term_fails" -> [port EXCEPT !.closed = TRUE]
                     [] OTHER -> [port EXCEPT !.closed = TRUE, !.term = TRUE]]
           /\ todo' = [todo EXCEPT ![p] = left]
           /\ Apply(p, IF left = {} THEN Done(Cur(p), Ret(PyNone), tr)
                        ELSE [Cur(p) EXCEPT !.trace = tr])
    /\ UNCHANGED <<olds, checked, fs, wire, call, pre, budget>>

(***************************************************************************)
(* parse_params as a call                                                  *)
(***************************************************************************)
parse_params(p, sparams) ==
    /\ Begin(p, Call("parse_params", PyNone, "f", PyText(sparams), PyNone))
    /\ LET r == parse_params_result(sparams)
       IN  Apply(p, Done(Cur(p), IF r.ok THEN Ret(r.v) ELSE Raise(r.exc), <<>>))
    /\ UNCHANGED <<olds, checked, zmq_ports, todo, fs, wire>>

(***************************************************************************)
\* a document sent by the peer reaches the socket of p
arrive(p, doc) ==
    /\ Len(wire[p]) < MaxWire
    /\ wire' = [wire EXCEPT ![p] = Append(@, doc)]
    /\ UNCHANGED <<simtime, s, olds, checked, retrycount, zmq_ports, todo, fs, pc, call, ins,
                   attempts, ret, trace, pre, budget>>

(***************************************************************************)
(* The input file                                                          *)
(***************************************************************************)
\* the file a read of p finds in the directory it shares with its peer
InFile(p) == FileAt(InPath(p, PyIntOf(call[p].port).n, call[p].name))

(***************************************************************************)
(* Inputs                                                                  *)
(***************************************************************************)
Txt_1 == <<"1">>
Txt_zp == <<"z", "p">>
Txt_list17 == <<"[", "1", ",", " ", "7", "]">>
Txt_x == <<"x">>
Txt_open == <<"[">>
Txt_7 == <<"7">>
Txt_list38 == <<"[", "3", ",", "8", "]">>
Txt_list25 == <<"[", "2", ",", " ", "5", "]">>
Txt_lista5 == <<"[", "'", "a", "'", ",", " ", "5", "]">>
Txt_lista == <<"[", "'", "a", "'", "]">>
Txt_empty == <<"[", "]">>
Txt_badkey == <<"{", "[", "1", "]", ":", "2", "}">>

\* Specification Spec: process A on file ports.  The port identifiers are a
\* port number, a value that is no port at all, and a name that is not a
\* number and not registered.
PortIds == {PyInt(1), PyNone, PyText(Txt_zp)}
Defaults == {PyText(Txt_list17), PyText(<<>>), PyText(Txt_x), PyText(Txt_badkey)}
WriteVals == {PyList(<<PyInt(5)>>), PyList(<<NpFloat(15)>>), PyText(<<"h", "i">>), PyInt(3)}
Deltas == {PyInt(0), PyInt(1), PyInt(-1), NpFloat(5), PyText(Txt_x)}
InitvalArgs == {PyText(Txt_list25), PyText(Txt_lista5), PyText(Txt_lista),
                PyText(Txt_x), PyText(Txt_empty), PyText(Txt_7), PyNone}
\* what a read may find in an input directory that something outside the
\* model fills: at the first attempt, and at a retry
EnvFiles == {Missing, Denied, FileOf(<<>>), FileOf(Txt_open), FileOf(Txt_7),
             FileOf(Txt_list38), FileOf(Txt_lista5), FileOf(Txt_empty)}
RetryFiles == {Missing, FileOf(<<>>), FileOf(Txt_list38)}

Next ==
    \/ \E port \in PortIds, name \in Names, d \in Defaults : read("A", port, name, d)
    \/ \E f \in EnvFiles : read_first("A", f)
    \/ \E f \in RetryFiles : read_retry("A", f)
    \/ \E port \in PortIds, name \in Names, v \in WriteVals, d \in Deltas :
          write("A", port, name, v, d)
    \/ write_open("A")
    \/ write_store("A")
    \/ \E a \in InitvalArgs : initval("A", a)

Spec == Init /\ [][Next]_vars

\* Specification SpecZmq: process A with registered socket ports.
ZmqPortNames == {Txt_1, Txt_zp}
ZmqPortIds == {PyText(Txt_1), PyText(Txt_zp)}
ZmqDefaults == {PyText(Txt_list17), PyText(<<>>)}
ZmqVals == {PyList(<<PyInt(5)>>), PyList(<<NpFloat(15)>>), PyText(<<"h", "i">>), PyInt(3)}
ZmqDeltas == {PyInt(1)}
SocketTypeStrs == {"req", "bogus"}
\* the documents the peer sends
PeerDocs == {JsonDumps(PyList(<<PyInt(4), PyText(<<"a">>)>>))}

NextZmq ==
    \/ \E n \in ZmqPortNames, t \in SocketTypeStrs, b \in BOOLEAN :
          init_zmq_port("A", n, "bind", "tcp://*:5555", t, b)
    \/ \E port \in ZmqPortIds, name \in Names, d \in ZmqDefaults :
          read("A", port, name, d)
    \/ read_first("A", InFile("A"))
    \/ read_retry("A", InFile("A"))
    \/ recv_json_with_retry("A")
    \/ \E doc \in PeerDocs : arrive("A", doc)
    \/ \E port \in ZmqPortIds, name \in Names, v \in ZmqVals, d \in ZmqDeltas :
          write("A", port, name, v, d)
    \/ send_json_with_retry("A")
    \/ write_open("A")
    \/ write_store("A")

InitZmq == InitWith(MaxZmqCalls, 0)

SpecZmq == InitZmq /\ [][NextZmq]_vars

\* Specification SpecPair: B writes lists to the file that A reads.
PairVals == {PyList(<<PyInt(5)>>), PyList(<<NpFloat(15), PyText(<<"a">>)>>)}
PairDeltas == {PyInt(2), NpFloat(5)}
PairDefaults == {PyText(Txt_list17), PyText(<<>>)}
PairInitvalArgs == {PyText(Txt_list25)}

NextPair ==
    \/ \E name \in Names, v \in PairVals, d \in PairDeltas :
          write("B", PyInt(1), name, v, d)
    \/ write_store("B")
    \/ \E name \in Names, d \in PairDefaults : read("A", PyInt(1), name, d)
    \/ read_first("A", InFile("A"))
    \/ read_retry("A", InFile("A"))
    \/ \E a \in PairInitvalArgs : initval("A", a)

InitPair == InitWith(MaxReaderCalls, MaxPeerCalls)

SpecPair == InitPair /\ [][NextPair]_vars

\* Specification SpecBoth: B writes lists to the file port and to the socket
\* port that A reads.
BothPortIds == {PyInt(1), PyText(Txt_zp)}
BothVals == {PyList(<<PyInt(5)>>), PyList(<<NpFloat(15), PyText(<<"a">>)>>),
             PyList(<<PyTuple(<<PyInt(1), PyInt(2)>>)>>)}
BothDeltas == {PyInt(2)}
BothDefaults == {PyText(Txt_list17)}

NextBoth ==
    \/ \E p \in Procs, b \in BOOLEAN :
          init_zmq_port(p, Txt_zp, IF p = "B" THEN "bind" ELSE "connect",
                        "tcp://*:5555", "req", b)
    \/ \E port \in BothPortIds, name \in Names, v \in BothVals, d \in BothDeltas :
          write("B", port, name, v, d)
    \/ send_json_with_retry("B")
    \/ write_store("B")
    \/ \E port \in BothPortIds, name \in Names, d \in BothDefaults :
          read("A", port, name, d)
    \/ read_first("A", InFile("A"))
    \/ read_retry("A", InFile("A"))
    \/ recv_json_with_retry("A")

InitBoth == InitWith(MaxReaderCalls, MaxPeerCalls)

SpecBoth == InitBoth /\ [][NextBoth]_vars

\* Specification SpecParams: process A parses parameter texts.
Segments ==
    { <<"a", "=", "1">>,
      <<"b", "=", "f", "o", "o">>,
      <<"c", "=", "[", "1", ",", "2", "]">>,
      <<" ", "a", " ", "=", " ", "7", " ">>,
      <<"b", "=", "=", "2">>,
      <<"c">>,
      <<>>,
      <<"{", "'", "a", "'", ":", "1", "}">>,
      <<"a", "=", "{", "[", "1", "]", ":", "2", "}">> }

RECURSIVE JoinSegs(_)
JoinSegs(segs) ==
    IF Len(segs) = 1 THEN segs[1]
    ELSE segs[1] \o <<";">> \o JoinSegs(Tail(segs))

ParamTexts ==
    { JoinSegs(segs) : segs \in UNION {[1..n -> Segments] : n \in 1..MaxSegs} }
    \cup { <<" ", " ">>,
           <<"{", "\"", "a", "\"", ":", " ", "1", ",", " ", "\"", "b", "\"", ":", " ", "2", "}">>,
           <<" ", "{", "'", "a", "'", ":", " ", "[", "1", "]", "}", " ">>,
           <<"{", "1", ",", " ", "2", "}">>,
           <<"{", "a", "=", "1", "}">>,
           <<"{", "}">>,
           Txt_badkey }

NextParams == \E text \in ParamTexts : parse_params("A", text)

InitParams == InitWith(1, 0)

SpecParams == InitParams /\ [][NextParams]_vars

\* Specification SpecLife: process A registers socket ports and closes them.
LifeSocketTypes == {"req", "sub", "bogus"}
CloseOutcomes == {"closed", "close_fails", "term_fails"}

NextLife ==
    \/ \E n \in ZmqPortNames, t \in LifeSocketTypes, b \in BOOLEAN :
          init_zmq_port("A", n, "bind", "tcp://*:5555", t, b)
    \/ terminate_zmq("A")
    \/ \E n \in ZmqPortNames, outcome \in CloseOutcomes :
          terminate_port("A", n, outcome)

InitLife == InitWith(MaxLifeCalls, 0)

SpecLife == InitLife /\ [][NextLife]_vars

\* Specification SpecFp: process A reads file ports and asks unchanged().
FpDefaults == {PyText(Txt_x), PyText(<<>>)}
FpFiles == {Missing, FileOf(Txt_list38)}

NextFp ==
    \/ \E name \in Names, d \in FpDefaults : read("A", PyInt(1), name, d)
    \/ \E f \in FpFiles : read_first("A", f)
    \/ \E f \in FpFiles : read_retry("A", f)
    \/ unchanged("A")

InitFp == InitWith(MaxFpCalls, 0)

SpecFp == InitFp /\ [][NextFp]_vars

(***************************************************************************)
(* Reading the record of a call                                            *)
(***************************************************************************)
\* the call op of p has returned or raised
Returned(p, op) == pc[p] = "idle" /\ call[p].op = op /\ ret[p].kind # "none"

\* the events of tr whose kind is in kinds
Events(tr, kinds) == SelectSeq(tr, LAMBDA e : e.e \in kinds)

ReadKinds == {"read_missing", "read_denied", "read_empty", "read_data"}

\* every attempt to read the file found it in the state kind, and there was one
AllFound(tr, kind) ==
    /\ Events(tr, ReadKinds) # <<>>
    /\ \A i \in 1..Len(tr) : tr[i].e \in ReadKinds => tr[i].e = kind

RECURSIVE Repeat(_, _)
Repeat(x, n) == IF n = 0 THEN <<>> ELSE x \o Repeat(x, n - 1)

\* str(v), spelled out
TextOf(v) == IF v.k = "str" THEN v.t ELSE PyRepr(v)

(***************************************************************************)
(* C1 .. C10                                                               *)
(***************************************************************************)

\* C1: logical time is monotonic: after every read or write call simtime is
\* greater than or equal to what it was when the call began.
C1_SimtimeMonotonic ==
    call["A"].op \in {"read", "write"}
        => Tenths(simtime["A"]) >= Tenths(pre["A"].simtime)

\* C2: round trip over a file port: when the reader reads the file holding
\* exactly what a list write of v with delta d at writer time t left there,
\* the read returns v (numpy scalars normalized) and the reader's simtime is
\* at least t + d afterwards.
C2_RoundTrip ==
    [][(/\ pc["A"] = "read_first"
        /\ pc'["A"] = "idle"
        /\ pc["B"] = "idle"
        /\ call["B"].op = "write"
        /\ IsList(call["B"].val)
        /\ fs[InPath("A", 1, "f")].st = "file")
       => (/\ ret'["A"] = Ret(convert_numpy_to_python(call["B"].val))
           /\ Tenths(simtime'["A"])
                >= Tenths(pre["B"].simtime) + Tenths(call["B"].delta))]_vars

\* C3: retry bound, empty file: a read of a file that exists and stays empty
\* pauses and reads once, then pauses and reads 5 more times, adds exactly 5
\* to retrycount and returns the parsed default.
C3_EmptyFileRetryBound ==
    (Returned("A", "read") /\ AllFound(trace["A"], "read_empty"))
        => (/\ trace["A"] = Repeat(<<Sleep(delay), Ev("read_empty", 0)>>, 1 + 5)
                            \o <<LogError>>
            /\ retrycount["A"] = pre["A"].retrycount + 5
            /\ ret["A"] = Ret(Fallback(call["A"].val)))

C3_Witness ==
    /\ Returned("A", "read")
    /\ AllFound(trace["A"], "read_empty")
    /\ Len(Events(trace["A"], ReadKinds)) = 6
    /\ call["A"].val = PyText(Txt_list17)
    /\ ret["A"] = Ret(PyList(<<PyInt(1), PyInt(7)>>))

\* C4 as stated: retry bound, missing file: a read of a file that never
\* exists performs exactly 5 retries and then returns the caller's default,
\* for every default.
C4_MissingFileRetryBound ==
    (Returned("A", "read") /\ AllFound(trace["A"], "read_missing"))
        => (/\ Len(Events(trace["A"], ReadKinds)) = 1 + 5
            /\ retrycount["A"] = pre["A"].retrycount + 5
            /\ ret["A"] = Ret(Fallback(call["A"].val)))

\* C4 as amended: a read of a file that never exists takes the string form
\* of the default as the content.  When that string is empty it performs
\* exactly 5 retries, each after a pause of delay, and returns the default;
\* otherwise it performs no retry and returns what parsing the string
\* yields: the elements after the first of a non-empty list, the value of
\* any other literal, the default itself when it does not parse.
C4_MissingFileDefaultAsContent ==
    (Returned("A", "read") /\ AllFound(trace["A"], "read_missing"))
        => LET d == call["A"].val
               text == TextOf(d)
               r == literal_eval(text)
               M == Ev("read_missing", 0)
           IN  IF text = <<>>
               THEN /\ trace["A"] = <<Sleep(delay), M>>
                                    \o Repeat(<<Sleep(delay), M, LogWarning>>, 5)
                                    \o <<LogError>>
                    /\ retrycount["A"] = pre["A"].retrycount + 5
                    /\ ret["A"] = Ret(d)
               ELSE /\ Len(Events(trace["A"], ReadKinds)) = 1
                    /\ retrycount["A"] = pre["A"].retrycount
                    /\ ret["A"] = IF ~r.ok THEN Ret(d)
                                  ELSE IF IsList(r.v) /\ r.v.items # <<>>
                                  THEN Ret(PyList(Tail(r.v.items)))
                                  ELSE Ret(r.v)

C4_Witness ==
    /\ Returned("A", "read")
    /\ AllFound(trace["A"], "read_missing")
    /\ call["A"].val = PyText(<<>>)
    /\ Len(Events(trace["A"], ReadKinds)) = 6
    /\ retrycount["A"] = 10

\* the socket loop of the call of p: K is "send" or "recv"
SocketLoopShape(p, K) ==
    LET tr == trace[p]
        nAtt == Len(Events(tr, {K}))
        nOut == Len(SelectSeq(tr, LAMBDA e : e = Sleep(SocketPause)))
    IN  /\ nAtt <= 5
        /\ nAtt <= nOut + 1
        /\ Len(tr) >= 3 * nOut
        /\ SubSeq(tr, 1, 3 * nOut) = Repeat(<<Ev(K, 0), LogWarning, Sleep(SocketPause)>>, nOut)
        /\ (nOut < 5 /\ nAtt = nOut) => pc[p] = K
        /\ nOut = 5 => Len(tr) > 15 /\ tr[16] = LogError

TimedOut(p, K) ==
    /\ Events(trace[p], {K}) # <<>>
    /\ Len(Events(trace[p], {K})) = Len(SelectSeq(trace[p], LAMBDA e : e = Sleep(SocketPause)))

\* C5: socket retry bound: when every attempt times out there are exactly 5
\* send (receive) attempts, each followed by the pause; then send returns
\* without raising and the document is dropped, and receive returns None.
\* An attempt that does not time out is the last one.
C5_SocketRetryBound ==
    /\ (call["A"].op = "write" /\ Registered("A", call["A"].port))
         => /\ SocketLoopShape("A", "send")
            /\ (Returned("A", "write") /\ TimedOut("A", "send"))
                 => /\ Len(Events(trace["A"], {"send"})) = 5
                    /\ ret["A"].kind = "return"
                    /\ wire["B"] = pre["A"].wire
    /\ (call["A"].op = "read" /\ Registered("A", call["A"].port))
         => /\ SocketLoopShape("A", "recv")
            /\ (Returned("A", "read") /\ TimedOut("A", "recv"))
                 => /\ Len(Events(trace["A"], {"recv"})) = 5
                    /\ ret["A"] = Ret(PyNone)

C5_Witness ==
    /\ Returned("A", "write")
    /\ Registered("A", call["A"].port)
    /\ TimedOut("A", "send")
    /\ Len(Events(trace["A"], {"send"})) = 5

\* C6: a read on a registered socket port returns the parsed default on any
\* receive failure, all 5 attempts timing out included.
C6_SocketReadFallback ==
    (/\ Returned("A", "read")
     /\ Registered("A", call["A"].port)
     /\ Events(trace["A"], {"error"}) # <<>>)
        => ret["A"] = Ret(Fallback(call["A"].val))

\* C7: a write through a file port of a value that is neither text nor a
\* list reports an error, leaves every output file as it was and leaves
\* simtime unchanged, for every delta.
C7_UnsupportedWrite ==
    (/\ call["A"].op = "write"
     /\ ~IsStr(call["A"].val) /\ ~IsList(call["A"].val)
     /\ PyIntOf(call["A"].port).ok)
        => /\ OutFiles("A") = pre["A"].out
           /\ simtime["A"] = pre["A"].simtime
           /\ pc["A"] = "idle"
           /\ ret["A"] = Ret(PyNone)
           /\ Events(trace["A"], {"error"}) # <<>>

C7_Witness ==
    /\ Returned("A", "write")
    /\ call["A"].val = PyInt(3)
    /\ call["A"].delta = PyInt(1)
    /\ call["A"].port = PyInt(1)
    /\ fs[OutPath("A", 1, "f")].st = "file"
    /\ fs[OutPath("A", 1, "f")].data # <<>>

\* C8: no error crosses the read / write boundary: for every port identifier
\* and value, read and write return and never raise.
C8_NeverRaises ==
    call["A"].op \in {"read", "write"} => ret["A"].kind # "raise"

\* C9: a write whose port identifier names a registered socket port only
\* attempts the send: it changes no output file and leaves simtime unchanged.
C9_SocketWriteOnly ==
    (call["A"].op = "write" /\ Registered("A", call["A"].port))
        => /\ OutFiles("A") = pre["A"].out
           /\ simtime["A"] = pre["A"].simtime

\* C10 as stated: initval sets simtime to the first element of a non-empty
\* list with a numeric first element and returns the rest; on every other
\* input it returns an empty sequence, leaves simtime unchanged and does not
\* raise.
C10_InitvalEmptyOnMalformed ==
    Returned("A", "initval")
        => LET a == call["A"].val
               r == IF a.k = "str" THEN literal_eval(a.t) ELSE ParseFail
           IN  IF r.ok /\ IsList(r.v) /\ r.v.items # <<>> /\ IsNumber(r.v.items[1])
               THEN /\ simtime["A"] = r.v.items[1]
                    /\ ret["A"] = Ret(PyList(Tail(r.v.items)))
               ELSE /\ simtime["A"] = pre["A"].simtime
                    /\ ret["A"] = Ret(PyList(<<>>))

\* C10 as amended: as stated, except that on a list whose first element is
\* not numeric initval returns the remaining elements (an empty sequence
\* when there are none); simtime is still left unchanged.
C10_Initval ==
    Returned("A", "initval")
        => LET a == call["A"].val
               r == IF a.k = "str" THEN literal_eval(a.t) ELSE ParseFail
           IN  IF r.ok /\ IsList(r.v) /\ r.v.items # <<>>
               THEN /\ ret["A"] = Ret(PyList(Tail(r.v.items)))
                    /\ simtime["A"] = IF IsNumber(r.v.items[1]) THEN r.v.items[1]
                                      ELSE pre["A"].simtime
               ELSE /\ simtime["A"] = pre["A"].simtime
                    /\ ret["A"] = Ret(PyList(<<>>))

C10_Witness ==
    /\ Returned("A", "initval")
    /\ call["A"].val = PyText(Txt_lista5)
    /\ ret["A"] = Ret(PyList(<<PyInt(5)>>))
    /\ simtime["A"] = PyInt(2)
    /\ pre["A"].simtime = PyInt(2)

(***************************************************************************)
(* C11 .. C20                                                              *)
(***************************************************************************)
\* the step is a call of unchanged() by p
UnchangedCalled(p) == pc[p] = "idle" /\ budget'[p] # budget[p] /\ call'[p].op = "unchanged"

\* C11: unchanged() detects new data since the last check: when no read has
\* appended anything to the fingerprint since the previous call of
\* unchanged(), the call returns True; and it returns False only when the
\* fingerprint differs from what the previous call found.
C11_UnchangedDetects ==
    [][UnchangedCalled("A")
       => /\ (checked["A"].called /\ s["A"] = checked["A"].left)
                => ret'["A"] = Ret(PyBool(TRUE))
          /\ ret'["A"] = Ret(PyBool(FALSE)) => s["A"] # checked["A"].at]_vars

\* C14: missing-file perturbation: when the last call was a read on a file
\* port that found the file missing, with a default whose string form is
\* not empty, the call of unchanged() that follows returns False.
C14_MissingFilePerturbs ==
    [][(/\ UnchangedCalled("A")
        /\ call["A"].op = "read"
        /\ Events(trace["A"], {"read_missing"}) # <<>>
        /\ TextOf(call["A"].val) # <<>>)
       => ret'["A"] = Ret(PyBool(FALSE))]_vars

\* C12: the payload does not depend on the transport: when the peer's read
\* takes what a write of the list v left in the file, or the document that
\* write sent to the socket, it returns a value equal to v.
C12_TransportAgnostic ==
    [][(/\ pc'["A"] = "idle"
        /\ pc["B"] = "idle"
        /\ call["B"].op = "write"
        /\ IsList(call["B"].val)
        /\ \/ /\ pc["A"] = "read_first"
              /\ PyIntOf(call["B"].port).ok
              /\ fs[InPath("A", 1, "f")].st = "file"
           \/ /\ pc["A"] = "recv"
              /\ Registered("B", call["B"].port)
              /\ wire["A"] # <<>>
              /\ wire'["A"] = Tail(wire["A"])
              /\ Head(wire["A"]) = JsonDumps(call["B"].val))
       => (ret'["A"].kind = "return" /\ PyEq(ret'["A"].v, call["B"].val))]_vars

\* the mapping the grammar of parse_params gives the segments segs
RECURSIVE GrammarOfSegments(_, _)
GrammarOfSegments(segs, acc) ==
    IF segs = <<>> THEN acc
    ELSE LET seg == Head(segs)
             eq == Find(seg, "=", 1)
             key == Strip(SubSeq(seg, 1, eq - 1))
             raw == Strip(SubSeq(seg, eq + 1, Len(seg)))
         IN  GrammarOfSegments(Tail(segs),
               IF eq = 0 THEN acc
               ELSE DictSet(acc, PyText(key),
                            IF literal_eval(raw).ok THEN literal_eval(raw).v
                            ELSE PyText(raw)))

\* the mapping the grammar gives a text
GrammarOf(text) ==
    LET trimmed == Strip(text)
        wrapped == /\ trimmed # <<>>
                   /\ Head(trimmed) = "{" /\ trimmed[Len(trimmed)] = "}"
                   /\ literal_eval(trimmed).ok
                   /\ literal_eval(trimmed).v.k = "dict"
    IN  IF trimmed = <<>> THEN PyDict(<<>>)
        ELSE IF wrapped THEN literal_eval(trimmed).v
        ELSE PyDict(GrammarOfSegments(Split(trimmed, ";"), <<>>))

\* C13: parse_params returns the mapping of its grammar: empty for empty or
\* blank text; the mapping literal for text wrapped in braces that parses to
\* one; otherwise, for each ";"-separated segment with an "=", the trimmed
\* key mapped to the parsed literal or, when parsing fails, to the trimmed
\* raw text.
C13_ParamsGrammar ==
    Returned("A", "parse_params") => ret["A"] = Ret(GrammarOf(call["A"].val.t))

\* the example of C13: "a=1;b=foo;c=[1,2]" gives {a: 1, b: "foo", c: [1, 2]}
C13_Example ==
    (Returned("A", "parse_params")
     /\ call["A"].val.t = <<"a", "=", "1", ";", "b", "=", "f", "o", "o", ";",
                            "c", "=", "[", "1", ",", "2", "]">>)
        => ret["A"] = Ret(PyDict(<< <<PyText(<<"a">>), PyInt(1)>>,
                                    <<PyText(<<"b">>), PyText(<<"f", "o", "o">>)>>,
                                    <<PyText(<<"c">>), PyList(<<PyInt(1), PyInt(2)>>)>> >>))

\* the write of p went through its file stage and reported no error
WroteFile(p) ==
    /\ Returned(p, "write")
    /\ ret[p].kind = "return"
    /\ PyIntOf(call[p].port).ok
    /\ Events(trace[p], {"error"}) = <<>>

\* C15: a successful file write of a list v with delta d at simtime t leaves
\* the file holding the text of the envelope [t + d] followed by the
\* normalized items of v (which, for a native t + d, parses back to that
\* envelope) and simtime equal to t + d; a successful file write of text
\* pauses 2 * delay, stores the text as it is and leaves simtime unchanged.
C15_FileWriteEffects ==
    WroteFile("A")
        => LET c == call["A"]
               t == pre["A"].simtime
               f == fs[OutPath("A", PyIntOf(c.port).n, c.name)]
               sum == PyAdd(t, c.delta)
               envelope == PyList(<<sum.v>> \o convert_numpy_to_python(c.val).items)
           IN  /\ f.st = "file"
               /\ IsList(c.val)
                    => /\ sum.ok
                       /\ f.data = TextOf(envelope)
                       /\ sum.v.k # "np"
                            => /\ literal_eval(f.data).ok
                               /\ PyEq(literal_eval(f.data).v, envelope)
                       /\ simtime["A"] = sum.v
                       /\ trace["A"] = <<OpenWrite>>
               /\ IsStr(c.val)
                    => /\ f.data = c.val.t
                       /\ simtime["A"] = t
                       /\ trace["A"] = <<Sleep(2 * delay), OpenWrite>>

C15_Witness ==
    /\ WroteFile("A")
    /\ call["A"].val = PyList(<<NpFloat(15)>>)
    /\ call["A"].delta = PyInt(1)
    /\ pre["A"].simtime = PyInt(1)
    /\ simtime["A"] = PyInt(2)
    /\ fs[OutPath("A", 1, "f")].data = <<"[", "2", ",", " ", "1", ".", "5", "]">>

\* the content the read of p went on with: what the last attempt that found
\* data read, else the string form of the default when the file was missing
\* at the first attempt, else nothing
Content(p) ==
    LET found == Events(trace[p], {"read_data"})
        tried == Events(trace[p], ReadKinds)
    IN  IF found # <<>> THEN found[Len(found)].data
        ELSE IF tried # <<>> /\ tried[1].e = "read_missing" THEN TextOf(call[p].val)
        ELSE <<>>

\* the read of p returned on its file path
ReadFile(p) == Returned(p, "read") /\ ret[p].kind = "return" /\ ~Registered(p, call[p].port)

\* the read of p got no content: invalid identifier, unreadable file, or
\* retries exhausted
NoContent(p) ==
    \/ ~PyIntOf(call[p].port).ok
    \/ Events(trace[p], {"read_denied"}) # <<>>
    \/ Content(p) = <<>>

\* C16 as stated: effects of a file read on logical time: content that
\* parses to a non-empty list makes simtime the maximum of simtime before
\* and element 0, and the rest is returned; a parsed non-list is returned as
\* it is; on a parse failure, an invalid identifier or exhausted retries the
\* fallback is returned; simtime is unchanged whenever the fallback or a
\* non-list is returned.
C16_ReadSetsMax ==
    ReadFile("A")
        => LET r == literal_eval(Content("A"))
               before == pre["A"].simtime
           IN  IF NoContent("A") \/ ~r.ok
               THEN ret["A"] = Ret(Fallback(call["A"].val)) /\ simtime["A"] = before
               ELSE IF IsList(r.v) /\ r.v.items # <<>>
               THEN /\ ret["A"] = Ret(PyList(Tail(r.v.items)))
                    /\ IsNumber(r.v.items[1])
                    /\ simtime["A"] = IF Tenths(r.v.items[1]) > Tenths(before)
                                      THEN r.v.items[1] ELSE before
               ELSE IsList(r.v) \/ (ret["A"] = Ret(r.v) /\ simtime["A"] = before)

\* C16 as amended: as stated, except that simtime becomes the maximum only
\* when element 0 of the list is a number and is unchanged when it is not,
\* and that an empty list is returned as it is, like a non-list.
C16_ReadEffects ==
    ReadFile("A")
        => LET r == literal_eval(Content("A"))
               before == pre["A"].simtime
           IN  IF NoContent("A") \/ ~r.ok
               THEN ret["A"] = Ret(Fallback(call["A"].val)) /\ simtime["A"] = before
               ELSE IF IsList(r.v) /\ r.v.items # <<>>
               THEN /\ ret["A"] = Ret(PyList(Tail(r.v.items)))
                    /\ simtime["A"] = IF IsNumber(r.v.items[1])
                                         /\ Tenths(r.v.items[1]) > Tenths(before)
                                      THEN r.v.items[1] ELSE before
               ELSE ret["A"] = Ret(r.v) /\ simtime["A"] = before

C16_Witness ==
    /\ ReadFile("A")
    /\ Content("A") = Txt_lista5
    /\ ret["A"] = Ret(PyList(<<PyInt(5)>>))
    /\ pre["A"].simtime = PyInt(2)
    /\ simtime["A"] = PyInt(2)

\* the text is a complete envelope: a list literal that starts with a number
IsEnvelope(text) ==
    LET r == literal_eval(text)
    IN  r.ok /\ IsList(r.v) /\ r.v.items # <<>> /\ IsNumber(r.v.items[1])

\* C17: tolerance of a slow peer: a read that finds the file empty at its
\* first attempt and a complete envelope at a retry makes no attempt after
\* that one and returns the payload of the envelope, with simtime the
\* maximum of its value before and the timestamp; when the file is still
\* empty (or gone) at the 5th retry, and only then, it returns the fallback.
C17_SlowPeer ==
    LET tried == Events(trace["A"], ReadKinds)
        found == Events(trace["A"], {"read_data"})
        slow == /\ call["A"].op = "read"
                /\ tried # <<>>
                /\ tried[1].e = "read_empty"
                /\ \A i \in 1..Len(found) : IsEnvelope(found[i].data)
    IN  slow
        => /\ Len(tried) <= 1 + 5
           /\ retrycount["A"] = pre["A"].retrycount + (Len(tried) - 1)
           /\ found # <<>>
                => LET envelope == literal_eval(found[1].data).v
                   IN  /\ Len(found) = 1
                       /\ tried[Len(tried)].e = "read_data"
                       /\ pc["A"] = "idle"
                       /\ ret["A"] = Ret(PyList(Tail(envelope.items)))
                       /\ simtime["A"] =
                            IF Tenths(envelope.items[1]) > Tenths(pre["A"].simtime)
                            THEN envelope.items[1] ELSE pre["A"].simtime
           /\ (found = <<>> /\ pc["A"] = "idle")
                => /\ Len(tried) = 1 + 5
                   /\ ret["A"] = Ret(Fallback(call["A"].val))
                   /\ simtime["A"] = pre["A"].simtime

C17_Witness ==
    /\ Returned("A", "read")
    /\ Len(Events(trace["A"], ReadKinds)) = 3
    /\ Events(trace["A"], ReadKinds)[1].e = "read_empty"
    /\ Events(trace["A"], ReadKinds)[2].e = "read_empty"
    /\ Events(trace["A"], ReadKinds)[3].e = "read_data"
    /\ call["A"].val = PyText(Txt_list17)
    /\ ret["A"] = Ret(PyList(<<PyInt(8)>>))
    /\ simtime["A"] = PyInt(3)

\* the state of the port name n in a registry
PortState(registry, n) ==
    IF n \notin DOMAIN registry THEN "Uninitialized"
    ELSE IF registry[n].closed THEN "Closed"
    ELSE "Open"

\* the step is a call of init_zmq_port by p
InitCalled(p) == pc[p] = "idle" /\ budget'[p] # budget[p] /\ call'[p].op = "init_zmq_port"

\* C18: lifecycle of the socket port registry: a name goes from
\* Uninitialized to Bound/Connected to Closed and never back; init_zmq_port
\* with a registered name, closed or not, leaves the registry as it is; a
\* name is registered only by an init_zmq_port with a valid pattern name
\* whose bind / connect succeeds; an init_zmq_port that fails leaves the
\* registry as it is; init_zmq_port never raises.
C18_PortLifecycle ==
    [][/\ \A n \in ZmqPortNames :
            LET before == PortState(zmq_ports["A"], n)
                after == PortState(zmq_ports'["A"], n)
            IN  /\ <<before, after>> \in
                      {<<"Uninitialized", "Uninitialized">>, <<"Uninitialized", "Open">>,
                       <<"Open", "Open">>, <<"Open", "Closed">>, <<"Closed", "Closed">>}
                /\ (before = "Uninitialized" /\ after # "Uninitialized")
                     => /\ InitCalled("A")
                        /\ call'["A"].port = PyText(n)
                        /\ Upper(call'["A"].val.t[1]) \in {"REQ", "REP", "PUB", "SUB"}
                        /\ Events(trace'["A"], {"error"}) = <<>>
       /\ InitCalled("A")
            => /\ ret'["A"] = Ret(PyNone)
               /\ (\/ call'["A"].port.t \in DOMAIN zmq_ports["A"]
                   \/ Upper(call'["A"].val.t[1]) \notin {"REQ", "REP", "PUB", "SUB"}
                   \/ Events(trace'["A"], {"error"}) # <<>>)
                    => zmq_ports'["A"] = zmq_ports["A"]]_vars

C18_Witness ==
    /\ Returned("A", "init_zmq_port")
    /\ call["A"].port = PyText(Txt_zp)
    /\ call["A"].val = PyText(<<"sub">>)
    /\ PortState(zmq_ports["A"], Txt_zp) = "Closed"
    /\ zmq_ports["A"][Txt_zp].socket_type = "REQ"
    /\ trace["A"] = <<LogInfo>>

\* C19: terminate_zmq attempts to close the socket of every registered port
\* exactly once, whatever fails for the other ports, and does not raise;
\* every port for which nothing failed has its socket closed and its
\* context released.
C19_CloseAllIsolated ==
    call["A"].op = "terminate_zmq"
        => /\ ret["A"].kind # "raise"
           /\ \A n \in DOMAIN zmq_ports["A"] :
                LET closes == SelectSeq(trace["A"], LAMBDA e : e = CloseEv(n))
                    failed == \E i \in 1..Len(trace["A"]) : trace["A"][i] = PortError(n)
                IN  /\ Len(closes) = IF n \in todo["A"] THEN 0 ELSE 1
                    /\ pc["A"] = "idle" => n \notin todo["A"]
                    /\ (n \notin todo["A"] /\ ~failed)
                         => zmq_ports["A"][n].closed /\ zmq_ports["A"][n].term

C19_Witness ==
    /\ Returned("A", "terminate_zmq")
    /\ trace["A"] = <<CloseEv(Txt_1), PortError(Txt_1), CloseEv(Txt_zp), TermEv(Txt_zp)>>
    /\ ~zmq_ports["A"][Txt_1].closed
    /\ zmq_ports["A"][Txt_zp].closed
    /\ zmq_ports["A"][Txt_zp].term

\* the step ends a read of the reader on its file path
ReadEnds == call["A"].op = "read" /\ pc["A"] \in {"read_first", "read_retry"}
            /\ pc'["A"] = "idle"

\* the text in the channel is an envelope that the last write of the
\* writer stored whole
WriterStored(text) ==
    /\ text # <<>>
    /\ pc["B"] = "idle"
    /\ call["B"].op = "write"
    /\ IsList(call["B"].val)
    /\ PyAdd(pre["B"].simtime, call["B"].delta).ok
    /\ text = TextOf(PyList(<<PyAdd(pre["B"].simtime, call["B"].delta).v>>
                             \o convert_numpy_to_python(call["B"].val).items))

\* the larger of two numbers in tenths
MaxOf(a, b) == IF a > b THEN a ELSE b

\* C20 as stated: one writer of lists and one reader on one file: under
\* every interleaving a read returns the payload of an envelope the writer
\* stored whole, or the fallback, and leaves the reader's simtime no larger
\* than the largest of its value before and the timestamp of that envelope.
C20_PairReadsWritten ==
    [][ReadEnds
       => LET f == fs[InPath("A", 1, "f")]
              env == literal_eval(f.data)
              got == f.st = "file" /\ WriterStored(f.data) /\ IsEnvelope(f.data)
          IN  /\ \/ ret'["A"] = Ret(Fallback(call["A"].val))
                 \/ got /\ ret'["A"] = Ret(PyList(Tail(env.v.items)))
              /\ Tenths(simtime'["A"])
                   <= MaxOf(Tenths(simtime["A"]),
                            IF got THEN Tenths(env.v.items[1]) ELSE Tenths(simtime["A"]))]_vars

\* C20 as amended: as stated, except that a read whose first attempt finds
\* no file returns what parsing the string form of its default yields (the
\* elements after the first of a non-empty list), with simtime no larger
\* than the largest of its value before and the first element of that list.
C20_PairReads ==
    [][ReadEnds
       => LET f == fs[InPath("A", 1, "f")]
              env == literal_eval(f.data)
              got == f.st = "file" /\ WriterStored(f.data) /\ IsEnvelope(f.data)
              d == literal_eval(TextOf(call["A"].val))
              nofile == /\ f.st = "missing" /\ pc["A"] = "read_first"
                        /\ d.ok /\ IsList(d.v) /\ d.v.items # <<>>
          IN  /\ \/ ret'["A"] = Ret(Fallback(call["A"].val))
                 \/ got /\ ret'["A"] = Ret(PyList(Tail(env.v.items)))
                 \/ nofile /\ ret'["A"] = Ret(PyList(Tail(d.v.items)))
              /\ Tenths(simtime'["A"])
                   <= MaxOf(Tenths(simtime["A"]),
                            IF got THEN Tenths(env.v.items[1])
                            ELSE IF nofile /\ IsNumber(d.v.items[1])
                            THEN Tenths(d.v.items[1])
                            ELSE Tenths(simtime["A"]))]_vars

\* the reader found the file truncated by a write in progress, then the
\* envelope of that write
C20_Witness ==
    /\ Returned("A", "read")
    /\ Len(Events(trace["A"], ReadKinds)) = 2
    /\ Events(trace["A"], ReadKinds)[1].e = "read_empty"
    /\ Events(trace["A"], ReadKinds)[2].e = "read_data"
    /\ call["B"].val = PyList(<<PyInt(5)>>)
    /\ ret["A"] = Ret(PyList(<<PyInt(5)>>))
    /\ simtime["A"] = PyInt(2)
    /\ simtime["B"] = PyInt(2)

=============================================================================
